---- MODULE Spec2Model ----
(***************************************************************************)
(* Husqvarna Automower BLE integration: config-entry setup and unload,     *)
(* the reconnect-aware polling coordinator, and the lawn-mower and battery *)
(* entities.  Poll cycles, command bodies, setup and unload are tasks of   *)
(* one cooperative event loop: each action below is the code that runs     *)
(* between two awaits, so tasks interleave exactly at the awaited device   *)
(* operations.                                                             *)
(***************************************************************************)
EXTENDS Integers, Sequences, FiniteSets, TLC

\* ------------------------------------------------------------------ bounds
MaxPolls == 2        \* poll cycles started in one behaviour
MaxCmds == 1         \* command invocations in one behaviour

\* ----------------------------------------------------------------- domains
Absent == "absent"   \* Python None
NoData == [none |-> TRUE]   \* coordinator.data is None

\* automower_ble.protocol.MowerState / MowerActivity members
MowerStates ==
    {"OFF", "WAIT_FOR_SAFETYPIN", "STOPPED", "FATAL_ERROR", "PENDING_START",
     "PAUSED", "IN_OPERATION", "RESTRICTED", "ERROR"}
MowerActivities ==
    {"NONE", "CHARGING", "GOING_OUT", "MOWING", "GOING_HOME", "PARKED",
     "STOPPED_IN_GARDEN"}
LawnMowerActivities == {"MOWING", "PAUSED", "DOCKED", "ERROR"}

\* values the device returns to the reads of a poll cycle in Spec
ReadBattery == {"40"}          \* battery percentages, as tokens
ReadActivities == {"PARKED", "MOWING"}
ReadStates == {"PAUSED", "IN_OPERATION"}

CmdIds == {1, 2}              \* two concurrent service-call tasks
CmdKinds == {"start", "dock", "pause"}

VARIABLES
    entry,                \* config entry: position of setup / unload
    mowerConnected,       \* mower.is_connected()
    registry,             \* entry_id in hass.data[DOMAIN]
    listeners,            \* both entities added and subscribed
    scheduled,            \* the coordinator's refresh timer is armed
    shutdownRequested,    \* coordinator/debouncer shut down
    cooldown,             \* request-refresh debouncer: cooldown timer runs
    coordData,            \* coordinator.data
    last_update_success,  \* coordinator.last_update_success
    attr_activity,        \* AutomowerLawnMower._attr_activity
    attr_available,       \* AutomowerLawnMower._attr_available
    native_value,         \* BatterySensor._attr_native_value
    poll,                 \* the poll cycle in progress / the last one ended
    cmd,                  \* per command task: position and what it did
    lastCmd,              \* the command invocation that returned last
    unload,               \* what the last unload call did
    pollCount, cmdCount,
    mapped                \* MapperSpec: the mapper has been applied

vars == <<entry, mowerConnected, registry, listeners, scheduled,
          shutdownRequested, cooldown, coordData,
          last_update_success, attr_activity, attr_available, native_value,
          poll, cmd, lastCmd, unload, pollCount, cmdCount, mapped>>

\* ------------------------------------------------------------ state mapper
\* AutomowerLawnMower._get_activity, the rules in the order of the code
_get_activity_broken(data) ==
    IF data = NoData THEN Absent
    ELSE IF data.state = Absent THEN Absent
    ELSE IF data.activity = Absent THEN Absent
    ELSE IF data.state = "PAUSED" THEN "PAUSED"
    ELSE IF data.state \in {"WAIT_FOR_SAFETYPIN", "STOPPED", "FATAL_ERROR", "ERROR"}
         THEN "ERROR"
    ELSE IF data.state \in {"PENDING_START", "IN_OPERATION", "RESTRICTED"}
              /\ data.activity \in {"CHARGING", "PARKED", "GOING_HOME"}
         THEN "DOCKED"
    ELSE IF data.state \in {"PENDING_START", "IN_OPERATION", "RESTRICTED"}
              /\ data.activity \in {"GOING_OUT", "MOWING"}
         THEN "MOWING"
    ELSE "ERROR"

_get_activity(data) ==
    IF data = NoData THEN Absent
    ELSE IF data.state = Absent THEN Absent
    ELSE IF data.activity = Absent THEN Absent
    ELSE IF data.state = "PAUSED" THEN "PAUSED"
    ELSE IF data.state \in {"WAIT_FOR_SAFETYPIN", "STOPPED", "FATAL_ERROR", "ERROR"}
         THEN "ERROR"
    ELSE IF data.state \in {"PENDING_START", "IN_OPERATION", "RESTRICTED"}
              /\ data.activity \in {"CHARGING", "PARKED"}
         THEN "DOCKED"
    ELSE IF data.state \in {"PENDING_START", "IN_OPERATION", "RESTRICTED"}
              /\ data.activity \in {"GOING_OUT", "MOWING", "GOING_HOME"}
         THEN "MOWING"
    ELSE "ERROR"

\* HusqvarnaAutomowerBleEntity.available (both entities inherit it)
available_stored == attr_available

available == mowerConnected

\* ------------------------------------------------------------------- Init
IdlePoll ==
    [pc |-> "idle", stage |-> "init", owner |-> "none", ownerId |-> 0,
     battery_level |-> Absent, activity |-> Absent, state |-> Absent,
     readFailed |-> FALSE, recovered |-> FALSE, reconnects |-> 0, reads |-> <<>>,
     result |-> "none", delivered |-> FALSE, connAtEnd |-> FALSE]

IdleCmd ==
    [pc |-> "idle", kind |-> "none", connRet |-> "none", issued |-> <<>>,
     connAtIssue |-> <<>>,
     refreshRequested |-> FALSE]

\* what a command invocation did, as recorded when it returns
Returned(rec, published, ret) ==
    [kind |-> rec.kind, connRet |-> rec.connRet, issued |-> rec.issued,
     connAtIssue |-> rec.connAtIssue,
     refreshRequested |-> rec.refreshRequested,
     published |-> published, ret |-> ret]

NoCmd == Returned(IdleCmd, FALSE, "none")

NoUnload == [ret |-> "none", connAtReturn |-> FALSE]

Init ==
    /\ entry = "new"
    /\ mowerConnected = FALSE
    /\ registry = FALSE
    /\ listeners = FALSE
    /\ scheduled = FALSE
    /\ shutdownRequested = FALSE
    /\ cooldown = FALSE
    /\ coordData = NoData
    /\ last_update_success = TRUE
    /\ attr_activity = Absent
    /\ attr_available = TRUE
    /\ native_value = Absent
    /\ poll = IdlePoll
    /\ cmd = [c \in CmdIds |-> IdleCmd]
    /\ lastCmd = NoCmd
    /\ unload = NoUnload
    /\ pollCount = 0
    /\ cmdCount = 0
    /\ mapped = FALSE

\* ------------------------------------------------- external device answers
\* The automower_ble client is outside the repository; the model takes it as
\* the code uses it: connect(device) returns True (handle connected) or False
\* (handle left as it was; at once for a None device), disconnect() closes
\* the handle, a read over a closed handle gives None or raises BleakError,
\* and a protocol write over a closed handle raises.
\* what one awaited read can give back: a value (only over a live
\* connection), None, or a raised BleakError
ReadOutcomes(dom) == (IF mowerConnected THEN dom ELSE {}) \cup {Absent, "BleakError"}

\* ------------------------------------------- coordinator refresh machinery
\* the snapshot _async_update_data returns
ReturnedData_partial(p) ==
    [battery_level |-> p.battery_level, activity |-> p.activity, state |-> Absent]

ReturnedData(p) ==
    [battery_level |-> p.battery_level, activity |-> p.activity, state |-> p.state]

\* exceptions _async_update_data / _async_find_device raise
DeviceNotFoundRaises == "UpdateFailed"
ConnectFailedRaises_nothing == "ok"

ConnectFailedRaises == "UpdateFailed"
ReadAbsentRaises_nothing == "ok"

ReadAbsentRaises == "UpdateFailed"
ReadErrorRaises_escapes == "BleakError"

ReadErrorRaises == "UpdateFailed"

\* DataUpdateCoordinator re-arms its timer after every refresh, failed or
\* not, as long as an entity listens
Rearm(exc) == listeners

\* AutomowerLawnMower / BatterySensor._handle_coordinator_update, in the order
\* the entities were added; the battery handler subscripts coordinator.data
HandlerRaises(data) == data = NoData

\* "if data["activity"] == MowerActivity.PARKED and self.mower.is_connected()"
ParkedDisconnects_never(p) == FALSE

ParkedDisconnects(p) == p.activity = "PARKED" /\ mowerConnected

\* a refresh begins: _async_refresh cancels the timer and _async_update_data
\* runs up to its first await
PollBegin(owner, id) ==
    /\ poll.pc = "idle"
    /\ pollCount < MaxPolls
    /\ pollCount' = pollCount + 1
    /\ scheduled' = FALSE
    /\ poll' = [IdlePoll EXCEPT !.owner = owner, !.ownerId = id,
                  !.pc = IF mowerConnected THEN "battery_level" ELSE "close"]

\* _async_update_data has returned or raised: the rest of _async_refresh
\* (store, re-arm, notify the listeners) and the awaiting caller's
\* continuation run without another await
PollEnd(p, exc, conn) ==
    LET data2 == IF exc = "ok" THEN ReturnedData(p) ELSE coordData
        notify == listeners /\ (exc = "ok" \/ last_update_success)
        raised == notify /\ HandlerRaises(data2)
        byCmd == p.owner = "cmd"
    IN
    /\ poll' = [p EXCEPT !.pc = "idle", !.stage = "init", !.owner = "none",
                  !.ownerId = 0, !.result = exc,
                  !.delivered = (exc = "ok"), !.connAtEnd = conn]
    /\ coordData' = data2
    /\ last_update_success' = (exc = "ok")
    /\ scheduled' = Rearm(exc)
    /\ attr_activity' = IF notify \/ byCmd THEN _get_activity(data2) ELSE attr_activity
    /\ attr_available' = IF notify THEN _get_activity(data2) # Absent ELSE attr_available
    /\ native_value' = IF notify /\ ~raised THEN data2.battery_level ELSE native_value
    /\ cmd' = IF byCmd THEN [cmd EXCEPT ![p.ownerId] = IdleCmd] ELSE cmd
    /\ lastCmd' = IF byCmd
                  THEN Returned(cmd[p.ownerId], ~raised,
                                IF raised THEN "raised" ELSE "done")
                  ELSE lastCmd
    /\ entry' = IF p.owner = "setup"
                THEN (IF raised THEN "setup_error" ELSE "loaded")
                ELSE entry
    /\ cooldown' = IF byCmd /\ ~raised /\ ~shutdownRequested THEN TRUE ELSE cooldown

\* what a poll-cycle step leaves alone
PollFrame == UNCHANGED <<registry, listeners, shutdownRequested, unload,
                         cmdCount, mapped>>
PollStepFrame == UNCHANGED <<entry, registry, listeners, scheduled,
                             shutdownRequested, cooldown, coordData,
                             last_update_success, attr_activity,
                             attr_available, native_value, cmd, lastCmd,
                             unload, pollCount, cmdCount, mapped>>

\* the scheduled tick
PollTick ==
    /\ scheduled
    /\ ~shutdownRequested
    /\ PollBegin("timer", 0)
    /\ UNCHANGED <<entry, mowerConnected, registry, listeners,
                   shutdownRequested, cooldown, coordData, last_update_success,
                   attr_activity, attr_available, native_value, cmd, lastCmd,
                   unload, cmdCount, mapped>>

\* _async_find_device: close_stale_connections_by_address returned, then the
\* lookup in the scan cache
PollFindDevice ==
    /\ poll.pc = "close"
    /\ \E found \in BOOLEAN :
         LET p == [poll EXCEPT !.reconnects = @ + 1,
                               !.recovered = (poll.stage # "init")] IN
         IF found
         THEN /\ poll' = [p EXCEPT !.pc = "connect"]
              /\ UNCHANGED mowerConnected
              /\ PollStepFrame
         ELSE /\ PollEnd(p, DeviceNotFoundRaises, mowerConnected)
              /\ UNCHANGED <<mowerConnected, pollCount>>
              /\ PollFrame

\* _async_find_device: mower.connect(device) returned
PollConnect ==
    /\ poll.pc = "connect"
    /\ \E ok \in BOOLEAN :
         IF ok /\ poll.stage = "init"
         THEN /\ mowerConnected' = TRUE
              /\ poll' = [poll EXCEPT !.pc = "battery_level"]
              /\ PollStepFrame
         ELSE /\ mowerConnected' = (ok \/ mowerConnected)
              /\ PollEnd(poll,
                         IF ~ok THEN ConnectFailedRaises
                         ELSE IF poll.stage = "none" THEN ReadAbsentRaises
                         ELSE ReadErrorRaises,
                         ok \/ mowerConnected)
              /\ UNCHANGED pollCount
              /\ PollFrame

\* a read came back None or raised BleakError: on to _async_find_device
ReadFails_noReconnect(field, out) ==
    /\ PollEnd([poll EXCEPT !.reads = Append(@, field), !.readFailed = TRUE],
               "UpdateFailed", mowerConnected)
    /\ UNCHANGED <<mowerConnected, pollCount>>
    /\ PollFrame

ReadFails_goesOn(field, out) ==
    /\ poll' = [poll EXCEPT !.reads = Append(@, field), !.readFailed = TRUE,
                  !.pc = IF field = "battery_level" THEN "activity"
                         ELSE IF field = "activity" THEN "state" ELSE "close",
                  !.stage = IF out = Absent THEN "none" ELSE "err"]
    /\ UNCHANGED mowerConnected
    /\ PollStepFrame

ReadFails(field, out) ==
    /\ poll' = [poll EXCEPT !.reads = Append(@, field), !.readFailed = TRUE,
                  !.pc = "close",
                  !.stage = IF out = Absent THEN "none" ELSE "err"]
    /\ UNCHANGED mowerConnected
    /\ PollStepFrame

PollReadBattery ==
    /\ poll.pc = "battery_level"
    /\ \E out \in ReadOutcomes(ReadBattery) :
         IF out \in ReadBattery
         THEN /\ poll' = [poll EXCEPT !.battery_level = out, !.pc = "activity",
                            !.reads = Append(@, "battery_level")]
              /\ UNCHANGED mowerConnected
              /\ PollStepFrame
         ELSE ReadFails("battery_level", out)

PollReadActivity ==
    /\ poll.pc = "activity"
    /\ \E out \in ReadOutcomes(ReadActivities) :
         IF out \in ReadActivities
         THEN /\ poll' = [poll EXCEPT !.activity = out, !.pc = "state",
                            !.reads = Append(@, "activity")]
              /\ UNCHANGED mowerConnected
              /\ PollStepFrame
         ELSE ReadFails("activity", out)

PollReadState ==
    /\ poll.pc = "state"
    /\ \E out \in ReadOutcomes(ReadStates) :
         IF out \in ReadStates
         THEN LET p == [poll EXCEPT !.state = out, !.reads = Append(@, "state")] IN
              IF ParkedDisconnects(p)
              THEN /\ poll' = [p EXCEPT !.pc = "disconnect"]
                   /\ UNCHANGED mowerConnected
                   /\ PollStepFrame
              ELSE /\ PollEnd(p, "ok", mowerConnected)
                   /\ UNCHANGED <<mowerConnected, pollCount>>
                   /\ PollFrame
         ELSE ReadFails("state", out)

\* mower.disconnect() returned; "return data" follows without an await
PollDisconnect ==
    /\ poll.pc = "disconnect"
    /\ mowerConnected' = FALSE
    /\ PollEnd(poll, "ok", FALSE)
    /\ UNCHANGED pollCount
    /\ PollFrame

\* ------------------------------------------------------------ entry setup
\* async_setup_entry up to "if not await mower.connect(device): return False"
SetupConnect ==
    /\ entry = "new"
    /\ \E ok \in BOOLEAN :
         /\ mowerConnected' = ok
         /\ entry' = IF ok THEN "connected" ELSE "setup_failed"
    /\ UNCHANGED <<registry, listeners, scheduled, shutdownRequested, cooldown,
                   coordData, last_update_success, attr_activity,
                   attr_available, native_value, poll, cmd, lastCmd, unload,
                   pollCount, cmdCount, mapped>>

\* get_model() returned; the coordinator is created and registered
SetupRegister ==
    /\ entry = "connected"
    /\ registry' = TRUE
    /\ entry' = "forward"
    /\ UNCHANGED <<mowerConnected, listeners, scheduled, shutdownRequested,
                   cooldown, coordData, last_update_success, attr_activity,
                   attr_available, native_value, poll, cmd, lastCmd, unload,
                   pollCount, cmdCount, mapped>>

\* AutomowerLawnMower.__init__: the activity an entity is constructed with
InitialActivity == "ERROR"

\* async_forward_entry_setups: lawn_mower.async_setup_entry constructs both
\* entities; their subscription arms the coordinator's timer
SetupForward ==
    /\ entry = "forward"
    /\ listeners' = TRUE
    /\ scheduled' = TRUE
    /\ attr_activity' = InitialActivity
    /\ entry' = "refresh"
    /\ UNCHANGED <<mowerConnected, registry, shutdownRequested, cooldown,
                   coordData, last_update_success, attr_available,
                   native_value, poll, cmd, lastCmd, unload, pollCount,
                   cmdCount, mapped>>

\* await coordinator.async_refresh(): the first poll, under the refresh lock
SetupRefresh ==
    /\ entry = "refresh"
    /\ PollBegin("setup", 0)
    /\ entry' = "refreshing"
    /\ UNCHANGED <<mowerConnected, registry, listeners, shutdownRequested,
                   cooldown, coordData, last_update_success, attr_activity,
                   attr_available, native_value, cmd, lastCmd, unload,
                   cmdCount, mapped>>

\* ----------------------------------------------------------- entry unload
\* async_unload_platforms returned: the entities are gone (the last listener
\* removed cancels the timer) or the platforms refused
UnloadPlatforms ==
    /\ entry = "loaded"
    /\ \E unload_ok \in BOOLEAN :
         IF unload_ok
         THEN /\ listeners' = FALSE
              /\ scheduled' = FALSE
              /\ entry' = "unloading"
              /\ unload' = NoUnload
         ELSE /\ unload' = [ret |-> "false", connAtReturn |-> mowerConnected]
              /\ UNCHANGED <<listeners, scheduled, entry>>
    /\ UNCHANGED <<mowerConnected, registry, shutdownRequested, cooldown,
                   coordData, last_update_success, attr_activity,
                   attr_available, native_value, poll, cmd, lastCmd, pollCount,
                   cmdCount, mapped>>

\* Coordinator.async_shutdown: "if self.mower.is_connected(): disconnect()"
ShutdownDisconnects_never == FALSE

ShutdownDisconnects == mowerConnected

\* hass.data[DOMAIN].pop, then Coordinator.async_shutdown up to its await
UnloadShutdown ==
    /\ entry = "unloading"
    /\ registry' = FALSE
    /\ shutdownRequested' = TRUE
    /\ scheduled' = FALSE
    /\ cooldown' = FALSE
    /\ IF ShutdownDisconnects
       THEN /\ entry' = "closing"
            /\ UNCHANGED unload
       ELSE /\ entry' = "unloaded"
            /\ unload' = [ret |-> "true", connAtReturn |-> mowerConnected]
    /\ UNCHANGED <<mowerConnected, listeners, coordData, last_update_success,
                   attr_activity, attr_available, native_value, poll, cmd,
                   lastCmd, pollCount, cmdCount, mapped>>

\* mower.disconnect() returned; async_unload_entry returns True
UnloadDisconnect ==
    /\ entry = "closing"
    /\ mowerConnected' = FALSE
    /\ entry' = "unloaded"
    /\ unload' = [ret |-> "true", connAtReturn |-> mowerConnected']
    /\ UNCHANGED <<registry, listeners, scheduled, shutdownRequested, cooldown,
                   coordData, last_update_success, attr_activity,
                   attr_available, native_value, poll, cmd, lastCmd, pollCount,
                   cmdCount, mapped>>

\* --------------------------------------------------------------- commands
\* the protocol command a command body starts with
FirstCommand_resume(kind) == "resume"

FirstCommand(kind) ==
    IF kind = "start" THEN "resume" ELSE IF kind = "dock" THEN "park" ELSE "pause"

\* "if not await self.coordinator.mower.connect(device): return"
CommandProceeds_unchecked(ret) == TRUE

CommandProceeds(ret) == ret

CmdFrame == UNCHANGED <<entry, registry, listeners, shutdownRequested,
                        coordData, last_update_success, attr_available,
                        native_value, unload, mapped>>

\* async_start_mowing / async_dock / async_pause up to the first await
CmdInvoke(c) ==
    /\ listeners
    /\ cmd[c].pc = "idle"
    /\ \A d \in CmdIds : d < c => cmd[d].pc # "idle"   \* the lowest free task slot
    /\ cmdCount < MaxCmds
    /\ \E kind \in CmdKinds :
         cmd' = [cmd EXCEPT ![c] =
                   [IdleCmd EXCEPT !.kind = kind,
                                   !.pc = IF mowerConnected THEN FirstCommand(kind)
                                          ELSE "connect"]]
    /\ cmdCount' = cmdCount + 1
    /\ UNCHANGED <<mowerConnected, scheduled, cooldown, attr_activity, poll,
                   pollCount, lastCmd>>
    /\ CmdFrame

\* the command returns at "return": nothing else is done
CmdAbort_refreshes(c) ==
    /\ lastCmd' = Returned([cmd[c] EXCEPT !.connRet = "fail",
                                          !.refreshRequested = TRUE], TRUE, "aborted")
    /\ cmd' = [cmd EXCEPT ![c] = IdleCmd]
    /\ attr_activity' = _get_activity(coordData)
    /\ UNCHANGED mowerConnected

CmdAbort(c) ==
    /\ lastCmd' = Returned([cmd[c] EXCEPT !.connRet = "fail"], FALSE, "aborted")
    /\ cmd' = [cmd EXCEPT ![c] = IdleCmd]
    /\ UNCHANGED <<mowerConnected, attr_activity>>

\* mower.connect(device) returned (False at once when the lookup gave None)
CmdConnect(c) ==
    /\ cmd[c].pc = "connect"
    /\ \E ret \in BOOLEAN :
         IF CommandProceeds(ret)
         THEN /\ mowerConnected' = (ret \/ mowerConnected)
              /\ cmd' = [cmd EXCEPT ![c] =
                           [@ EXCEPT !.pc = FirstCommand(cmd[c].kind),
                                     !.connRet = IF ret THEN "ok" ELSE "fail"]]
              /\ UNCHANGED <<attr_activity, lastCmd>>
         ELSE CmdAbort(c)
    /\ UNCHANGED <<scheduled, cooldown, poll, pollCount, cmdCount>>
    /\ CmdFrame

\* one protocol command is written to the handle; over a closed handle the
\* write raises and the command body ends there
Issue(c, name, nextpc) ==
    /\ cmd[c].pc = name
    /\ LET rec == [cmd[c] EXCEPT !.issued = Append(@, name),
                                 !.connAtIssue = Append(@, mowerConnected)] IN
       IF mowerConnected
       THEN /\ cmd' = [cmd EXCEPT ![c] = [rec EXCEPT !.pc = nextpc]]
            /\ UNCHANGED lastCmd
       ELSE /\ cmd' = [cmd EXCEPT ![c] = IdleCmd]
            /\ lastCmd' = Returned(rec, FALSE, "raised")
    /\ UNCHANGED <<mowerConnected, scheduled, cooldown, attr_activity, poll,
                   pollCount, cmdCount>>
    /\ CmdFrame

\* "if self._attr_activity == LawnMowerActivity.DOCKED: mower_override()"
OverrideAfterResume_always == TRUE

OverrideAfterResume == attr_activity = "DOCKED"

\* await mower_resume() returned
CmdResume(c) ==
    Issue(c, "resume", IF OverrideAfterResume THEN "override" ELSE "refresh")

CmdOverride(c) == Issue(c, "override", "refresh")

CmdPark(c) == Issue(c, "park", "refresh")

CmdPause(c) == Issue(c, "pause", "refresh")

\* await coordinator.async_request_refresh(): the debouncer drops the call
\* when shut down, cooling down or while a refresh holds the lock; then the
\* body goes on to "_attr_activity = _get_activity(); async_write_ha_state()"
CmdRequestRefresh(c) ==
    /\ cmd[c].pc = "refresh"
    /\ LET rec == [cmd[c] EXCEPT !.refreshRequested = TRUE] IN
       IF shutdownRequested \/ cooldown \/ poll.pc # "idle"
       THEN /\ cmd' = [cmd EXCEPT ![c] = IdleCmd]
            /\ lastCmd' = Returned(rec, TRUE, "done")
            /\ attr_activity' = _get_activity(coordData)
            /\ UNCHANGED <<scheduled, poll, pollCount>>
       ELSE /\ PollBegin("cmd", c)
            /\ cmd' = [cmd EXCEPT ![c] = [rec EXCEPT !.pc = "wait"]]
            /\ UNCHANGED <<attr_activity, lastCmd>>
    /\ UNCHANGED <<mowerConnected, cooldown, cmdCount>>
    /\ CmdFrame

\* the debouncer's cooldown timer ends
DebounceTimer ==
    /\ cooldown
    /\ cooldown' = FALSE
    /\ UNCHANGED <<entry, mowerConnected, registry, listeners, scheduled,
                   shutdownRequested, coordData, last_update_success,
                   attr_activity, attr_available, native_value, poll, cmd,
                   lastCmd, unload, pollCount, cmdCount, mapped>>

\* ---------------------------------------------------------- specification
Next ==
    \/ SetupConnect
    \/ SetupRegister
    \/ SetupForward
    \/ SetupRefresh
    \/ PollTick
    \/ PollFindDevice
    \/ PollConnect
    \/ PollReadBattery
    \/ PollReadActivity
    \/ PollReadState
    \/ PollDisconnect
    \/ \E c \in CmdIds : CmdInvoke(c)
    \/ \E c \in CmdIds : CmdConnect(c)
    \/ \E c \in CmdIds : CmdResume(c)
    \/ \E c \in CmdIds : CmdOverride(c)
    \/ \E c \in CmdIds : CmdPark(c)
    \/ \E c \in CmdIds : CmdPause(c)
    \/ \E c \in CmdIds : CmdRequestRefresh(c)
    \/ DebounceTimer
    \/ UnloadPlatforms
    \/ UnloadShutdown
    \/ UnloadDisconnect

Spec == Init /\ [][Next]_vars

\* ------------------------------------------- the mapper on its full domain
MapperInputs ==
    {NoData} \cup
    [battery_level : ReadBattery,
     activity : MowerActivities \cup {Absent},
     state : MowerStates \cup {Absent}]

MapperInit ==
    /\ entry = "new"
    /\ mowerConnected = FALSE
    /\ registry = FALSE
    /\ listeners = FALSE
    /\ scheduled = FALSE
    /\ shutdownRequested = FALSE
    /\ cooldown = FALSE
    /\ coordData \in MapperInputs
    /\ last_update_success = TRUE
    /\ attr_activity = Absent
    /\ attr_available = TRUE
    /\ native_value = Absent
    /\ poll = IdlePoll
    /\ cmd = [c \in CmdIds |-> IdleCmd]
    /\ lastCmd = NoCmd
    /\ unload = NoUnload
    /\ pollCount = 0
    /\ cmdCount = 0
    /\ mapped = FALSE

\* self._attr_activity = self._get_activity()
MapperApply ==
    /\ ~mapped
    /\ attr_activity' = _get_activity(coordData)
    /\ mapped' = TRUE
    /\ UNCHANGED <<entry, mowerConnected, registry, listeners, scheduled,
                   shutdownRequested, cooldown, coordData, last_update_success,
                   attr_available, native_value, poll, cmd, lastCmd, unload,
                   pollCount, cmdCount>>

MapperNext == MapperApply

MapperSpec == MapperInit /\ [][MapperNext]_vars

\* ================================================================= claims
PollEnded == poll.pc = "idle" /\ poll.result # "none"

\* C1 as stated: a cycle that read activity PARKED ends with the handle
\* disconnected, whatever the other reads of the cycle gave.
C1_ParkedAlwaysDisconnected ==
    (PollEnded /\ poll.activity = "PARKED") => ~poll.connAtEnd

\* C1 amended: a cycle whose three reads all gave a value and that read
\* activity PARKED ends with the handle disconnected.
C1_ParkedSuccessDisconnected ==
    (PollEnded /\ poll.result = "ok" /\ poll.activity = "PARKED")
        => (~poll.connAtEnd /\ poll.delivered)

C1_Witness ==
    /\ PollEnded /\ poll.result = "ok" /\ poll.activity = "PARKED"
    /\ coordData # NoData /\ ~mowerConnected

\* C2: a command invoked while disconnected issues a protocol command only
\* if its connect call returned success; after a failed connect it issues
\* none.
C2_CommandOnlyAfterConnect ==
    /\ \A c \in CmdIds :
         /\ cmd[c].connRet = "fail" => cmd[c].issued = <<>>
         /\ cmd[c].pc \in {"resume", "override", "park", "pause", "refresh", "wait"}
              => cmd[c].connRet # "fail"
    /\ lastCmd.connRet = "fail" => lastCmd.issued = <<>>

C2_Witness ==
    /\ lastCmd.connRet = "ok"
    /\ Len(lastCmd.issued) > 0
    /\ lastCmd.ret = "done"

\* C3: a cycle in which a read returned None or raised BleakError ran
\* _async_find_device after that read, ended with UpdateFailed and delivered
\* no snapshot.
C3_ReadFailureReconnectsAndFails ==
    (PollEnded /\ poll.readFailed)
        => (poll.recovered /\ poll.result = "UpdateFailed" /\ ~poll.delivered)

C3_Witness ==
    /\ PollEnded /\ poll.readFailed /\ poll.recovered
    /\ poll.reads = <<"battery_level", "activity", "state">>
    /\ poll.connAtEnd

\* C4: a failing cycle fails with UpdateFailed and nothing else, and the
\* refresh timer is armed again after it as long as the entities listen.
C4_OnlyUpdateFailed ==
    (PollEnded /\ poll.result # "ok")
        => (poll.result = "UpdateFailed" /\ (listeners => scheduled))

C4_Witness ==
    /\ PollEnded /\ poll.result = "UpdateFailed"
    /\ poll.reads = <<>> /\ poll.reconnects = 1
    /\ listeners /\ scheduled

\* C5 as stated: while no command has been issued, the entity's activity is
\* the mapper's result for the coordinator's snapshot, from construction on.
C5_ActivityFollowsSnapshot ==
    (listeners /\ cmdCount = 0) => attr_activity = _get_activity(coordData)

\* C6 as stated: no poll cycle runs while a command body runs (other than
\* the refresh that command awaits), and no two command bodies run at once.
C6_OneBodyAtATime ==
    /\ \A c \in CmdIds :
         (cmd[c].pc # "idle" /\ poll.pc # "idle")
             => (poll.owner = "cmd" /\ poll.ownerId = c)
    /\ \A c, d \in CmdIds : (cmd[c].pc # "idle" /\ cmd[d].pc # "idle") => c = d

\* C7: a command whose connect fails returns having changed nothing: neither
\* its invocation nor its return touches the activity, the snapshot, the
\* connection or the poller, and it has requested no refresh, published
\* nothing and issued nothing.
C7_FailedConnectNoChange ==
    [][\A c \in CmdIds :
         /\ (cmd[c].pc = "idle" /\ cmd'[c].pc = "connect")
              => UNCHANGED <<attr_activity, attr_available, coordData,
                             mowerConnected, poll, scheduled>>
         /\ (cmd[c].pc = "connect" /\ cmd'[c].pc = "idle")
              => /\ UNCHANGED <<attr_activity, attr_available, coordData,
                                mowerConnected, poll, scheduled>>
                 /\ lastCmd'.ret = "aborted"
                 /\ ~lastCmd'.refreshRequested
                 /\ ~lastCmd'.published
                 /\ lastCmd'.issued = <<>>]_vars

C7_Witness ==
    /\ lastCmd.ret = "aborted"
    /\ lastCmd.connRet = "fail"
    /\ ~lastCmd.published

\* C8 as stated: whenever unload has returned, the schedule is cancelled, the
\* handle is closed and the coordinator has left the registry.
C8_UnloadAlwaysReleases ==
    unload.ret # "none" => (~scheduled /\ ~registry /\ ~unload.connAtReturn)

\* C8 amended: when unload has returned True, the schedule is cancelled for
\* good, the handle was disconnected at the return and the coordinator has
\* left the registry; the schedule is cancelled before the handle is closed.
C8_SuccessfulUnloadReleases ==
    /\ unload.ret = "true"
         => (~scheduled /\ ~registry /\ ~listeners /\ ~unload.connAtReturn)
    /\ entry = "closing" => (~scheduled /\ shutdownRequested /\ ~registry)

C8_Witness ==
    /\ unload.ret = "true"
    /\ entry = "unloaded"
    /\ poll.pc # "idle"

\* C9: an entity is available exactly when the handle is connected, whatever
\* its update handler stored.
C9_AvailableIsConnected == available <=> mowerConnected

C9_Witness ==
    /\ listeners /\ ~mowerConnected
    /\ attr_available /\ attr_activity \in LawnMowerActivities
    /\ ~available

\* C10: the mapper agrees with the decision table on every (state, activity)
\* pair, absent included.
DecisionTable(data) ==
    CASE data = NoData -> Absent
      [] data # NoData /\ (data.state = Absent \/ data.activity = Absent) -> Absent
      [] OTHER ->
           CASE data.state = "PAUSED" -> "PAUSED"
             [] data.state \in {"WAIT_FOR_SAFETYPIN", "STOPPED", "FATAL_ERROR", "ERROR"}
                  -> "ERROR"
             [] data.state \in {"PENDING_START", "IN_OPERATION", "RESTRICTED"}
                /\ data.activity \in {"CHARGING", "PARKED"} -> "DOCKED"
             [] data.state \in {"PENDING_START", "IN_OPERATION", "RESTRICTED"}
                /\ data.activity \in {"GOING_OUT", "MOWING", "GOING_HOME"} -> "MOWING"
             [] OTHER -> "ERROR"

C10_MapperMatchesTable == mapped => attr_activity = DecisionTable(coordData)

C10_Witness ==
    /\ mapped
    /\ coordData # NoData
    /\ coordData.state = "PENDING_START" /\ coordData.activity = "CHARGING"
    /\ attr_activity = "DOCKED"

\* C11: a cycle that starts disconnected and does not find the device, or
\* whose connect returns False, ends there with UpdateFailed having issued no
\* read; its own steps leave the handle and the previous snapshot as they
\* were, so the handle is disconnected at the end when no command task ran.
\* No cycle reaches its first read unless the handle is connected then.
C11_StartedDisconnected == poll.pc \in {"close", "connect"} /\ poll.stage = "init"

C11_FailedStartNoRead ==
    /\ [][(C11_StartedDisconnected /\ poll'.pc = "idle")
            => /\ poll'.reads = <<>>
               /\ poll'.result = "UpdateFailed"
               /\ ~poll'.delivered
               /\ ~last_update_success'
               /\ UNCHANGED <<mowerConnected, coordData>>
               /\ (cmdCount = 0 => ~mowerConnected')]_vars
    /\ [][(poll.pc # "battery_level" /\ poll'.pc = "battery_level")
            => (mowerConnected' /\ poll'.reads = <<>>)]_vars
    /\ [][Len(poll'.reads) > Len(poll.reads)
            => (poll.pc \in {"battery_level", "activity", "state"}
                /\ Len(poll'.reads) = Len(poll.reads) + 1)]_vars

C11_Witness ==
    /\ PollEnded /\ poll.result = "UpdateFailed"
    /\ poll.reads = <<>> /\ ~poll.readFailed /\ poll.reconnects = 1
    /\ ~poll.connAtEnd /\ ~mowerConnected
    /\ coordData # NoData /\ ~last_update_success

\* C12: a cycle whose three reads all gave a value succeeds and its snapshot
\* holds exactly the three values read; the cycle goes to disconnect only
\* with activity PARKED over a connected handle, and a successful cycle with
\* another activity ends connected without having touched the handle.
C12_AllReadsGiveSnapshot ==
    /\ [](PollEnded /\ Len(poll.reads) = 3 /\ ~poll.readFailed
            => poll.result = "ok" /\ poll.delivered)
    /\ [](PollEnded /\ poll.result = "ok"
            => /\ poll.reads = <<"battery_level", "activity", "state">>
               /\ ~poll.readFailed
               /\ coordData = [battery_level |-> poll.battery_level,
                               activity |-> poll.activity,
                               state |-> poll.state]
               /\ poll.battery_level \in ReadBattery
               /\ poll.activity \in ReadActivities
               /\ poll.state \in ReadStates
               /\ last_update_success
               /\ (poll.activity # "PARKED" => poll.connAtEnd))
    /\ [](poll.pc = "disconnect" => poll.activity = "PARKED")
    /\ [][(poll.pc # "disconnect" /\ poll'.pc = "disconnect")
            => (mowerConnected /\ poll.pc = "state")]_vars
    /\ [][(poll.pc = "state" /\ poll'.pc = "idle" /\ poll'.result = "ok")
            => (mowerConnected /\ UNCHANGED mowerConnected)]_vars

C12_Witness ==
    /\ PollEnded /\ poll.result = "ok" /\ poll.activity = "MOWING"
    /\ poll.connAtEnd /\ mowerConnected
    /\ coordData # NoData /\ coordData.activity = "MOWING"
    /\ native_value = "40"

\* C13: a start, pause or dock invocation past the connection check first
\* issues its protocol command (resume, pause, park), then requests a refresh
\* once, then recomputes the activity with the mapper and publishes it: an
\* invocation that returns has done all of it in that order, and the activity
\* it publishes is the mapper's result for the snapshot held at its return.
C13_IssuedFor(kind) ==
    IF kind = "start" THEN {<<"resume">>, <<"resume", "override">>}
    ELSE IF kind = "dock" THEN {<<"park">>}
    ELSE {<<"pause">>}

C13_CommandOrder ==
    /\ [](\A c \in CmdIds :
            /\ cmd[c].pc \in {"resume", "override", "park", "pause", "refresh"}
                 => ~cmd[c].refreshRequested
            /\ cmd[c].pc \in {"resume", "park", "pause"} => cmd[c].issued = <<>>
            /\ cmd[c].pc = "override" => cmd[c].issued = <<"resume">>
            /\ cmd[c].pc \in {"refresh", "wait"}
                 => cmd[c].issued \in C13_IssuedFor(cmd[c].kind)
            /\ cmd[c].pc = "wait" => cmd[c].refreshRequested)
    /\ [](lastCmd.published
            => /\ lastCmd.ret = "done"
               /\ lastCmd.refreshRequested
               /\ lastCmd.issued \in C13_IssuedFor(lastCmd.kind))
    /\ [](lastCmd.ret = "done" => lastCmd.published)
    /\ [][\A c \in CmdIds :
            (cmd[c].pc \in {"refresh", "wait"} /\ cmd'[c].pc = "idle"
               /\ lastCmd'.ret = "done")
              => /\ lastCmd'.published
                 /\ lastCmd'.kind = cmd[c].kind
                 /\ attr_activity' = _get_activity(coordData')]_vars

C13_Witness ==
    /\ lastCmd.ret = "done" /\ lastCmd.kind = "dock"
    /\ lastCmd.issued = <<"park">>
    /\ lastCmd.refreshRequested /\ lastCmd.published
    /\ coordData # NoData
    /\ attr_activity = _get_activity(coordData)
    /\ poll.result = "ok"

\* C14: override is issued only by a start invocation, only right after that
\* invocation's resume, and exactly when the entity's activity is DOCKED when
\* resume has returned; pause and dock never issue it, and start goes from
\* resume straight to the refresh request for every other activity.
C14_OverrideOnlyWhenDocked ==
    /\ [](\A c \in CmdIds :
            /\ cmd[c].pc = "override"
                 => (cmd[c].kind = "start" /\ cmd[c].issued = <<"resume">>)
            /\ cmd[c].kind \in {"dock", "pause"}
                 => cmd[c].issued \in {<<>>, <<FirstCommand(cmd[c].kind)>>}
            /\ cmd[c].kind = "start"
                 => cmd[c].issued \in {<<>>, <<"resume">>, <<"resume", "override">>})
    /\ [](/\ lastCmd.kind \in {"dock", "pause"}
               => lastCmd.issued \in {<<>>, <<FirstCommand(lastCmd.kind)>>}
          /\ lastCmd.kind = "start"
               => lastCmd.issued \in {<<>>, <<"resume">>, <<"resume", "override">>})
    /\ [][\A c \in CmdIds :
            (cmd[c].pc = "resume" /\ cmd'[c].pc \notin {"resume", "idle"})
              => /\ cmd[c].kind = "start"
                 /\ attr_activity = "DOCKED" => cmd'[c].pc = "override"
                 /\ attr_activity \in {"MOWING", "PAUSED", "ERROR", Absent}
                      => cmd'[c].pc = "refresh"]_vars

C14_Witness ==
    /\ lastCmd.kind = "start" /\ lastCmd.ret = "done"
    /\ lastCmd.issued = <<"resume", "override">>
    /\ lastCmd.connAtIssue = <<TRUE, TRUE>>

\* C15: within one cycle the reads are battery level, activity, state in that
\* order, each at most once, and after a read that returned None or raised
\* BleakError the cycle issues no further read.
C15_ReadOrder == <<"battery_level", "activity", "state">>

C15_ReadsInOrderStopAtFailure ==
    /\ [](\E n \in 0..3 : poll.reads = SubSeq(C15_ReadOrder, 1, n))
    /\ [](poll.pc \in {"battery_level", "activity", "state"}
            => (~poll.readFailed
                /\ Len(poll.reads) < 3
                /\ poll.pc = C15_ReadOrder[Len(poll.reads) + 1]))
    /\ [](poll.readFailed => poll.pc \in {"close", "connect", "idle"})
    /\ [][(poll.readFailed /\ poll'.readFailed) => poll'.reads = poll.reads]_vars

C15_Witness ==
    /\ PollEnded /\ poll.readFailed
    /\ poll.reads = <<"battery_level", "activity">>
    /\ poll.battery_level = "40" /\ poll.activity = Absent
    /\ poll.result = "UpdateFailed"

\* C16 as stated: setup returns success whenever its connect succeeded,
\* whatever the first poll does; after a failed connect there is no
\* coordinator in the registry, no entity and no poll; and the registry holds
\* the coordinator only from a setup that succeeds (from its registration
\* on) until the unload that succeeds.
C16_SetupSucceedsIffConnected ==
    /\ entry # "setup_error"
    /\ entry = "setup_failed"
         => (~registry /\ ~listeners /\ pollCount = 0 /\ ~mowerConnected)
    /\ registry <=> entry \in {"forward", "refresh", "refreshing", "loaded",
                               "unloading"}

\* C17 as stated: at every notification of the listeners (a cycle ended
\* successfully, or failed after a success, the state before any cycle
\* counting as a success) the battery sensor's handler completes, and the
\* value it publishes is the battery level of the snapshot the coordinator
\* holds.
C17_Notified ==
    /\ poll.pc # "idle" /\ poll'.pc = "idle"
    /\ listeners
    /\ (poll'.result = "ok" \/ last_update_success)

C17_BatteryHandlerCompletes ==
    [][C17_Notified
         => /\ ~HandlerRaises(coordData')
            /\ native_value' = coordData'.battery_level]_vars

\* C18 as stated: every protocol command (resume, override, pause, park) is
\* written while the handle is connected, and the handle stays connected from
\* a command's connection check to the last protocol command after it.
C18_AllTrue(seq) == \A i \in 1..Len(seq) : seq[i]

C18_CommandsOverLiveHandle ==
    /\ \A c \in CmdIds :
         /\ C18_AllTrue(cmd[c].connAtIssue)
         /\ cmd[c].pc \in {"resume", "override", "park", "pause"} => mowerConnected
    /\ C18_AllTrue(lastCmd.connAtIssue)

\* C19: the coordinator's data is either no snapshot or a snapshot with all
\* three fields holding a value; a cycle that delivers has read all three.
C19_SnapshotComplete ==
    /\ coordData = NoData
       \/ (/\ DOMAIN coordData = {"battery_level", "activity", "state"}
           /\ coordData.battery_level \in ReadBattery
           /\ coordData.activity \in ReadActivities
           /\ coordData.state \in ReadStates)
    /\ poll.delivered
         => /\ poll.battery_level # Absent
            /\ poll.activity # Absent
            /\ poll.state # Absent
            /\ coordData # NoData
    /\ (PollEnded /\ ~poll.delivered) => poll.result # "ok"

C19_Witness ==
    /\ PollEnded /\ poll.result = "UpdateFailed" /\ ~poll.delivered
    /\ Len(poll.reads) = 3 /\ poll.state = Absent /\ poll.activity = "MOWING"
    /\ coordData # NoData
    /\ coordData.state \in ReadStates /\ coordData.activity = "PARKED"

====
